---- MODULE Spec2Model ----
(***************************************************************************)
(* Model of the synchronous, type-keyed event bus of src/lib.rs:           *)
(* EventBus { handler_cells: HashMap<TypeId, Vec<Box<dyn Any>>> } with     *)
(* new, register_fn, register_handler and call_event, the FnHandler        *)
(* adapter, and the closures and event types of the crate's tests.         *)
(***************************************************************************)
EXTENDS Integers, Sequences, FiniteSets, TLC

VARIABLES
    handler_cells,    \* EventBus.handler_cells: TypeId -> sequence of Box<dyn Any>
    overflow_checks,  \* build profile: TRUE, u32 overflow panics; FALSE, it wraps
    pc,               \* position of the caller / of call_event
    event_type,       \* the type parameter E of the running call_event
    type_id,          \* call_event's local type_id (line 37)
    event,            \* the event borrowed by call_event (&mut E)
    i,                \* position of the for loop in the handler sequence
    initial,          \* history: the event as the caller passed it in
    invoked,          \* history: handlers invoked by this call, with the event each saw
    registered,       \* history: per event type, the handlers registered, in call order
    previous          \* history: an earlier call that returned, no registration since

vars == <<handler_cells, overflow_checks, pc, event_type, type_id, event, i,
          initial, invoked, registered, previous>>

(***************************************************************************)
(* Bounds                                                                  *)
(***************************************************************************)
\* total number of register_fn / register_handler calls on one bus
MaxHandlers == 4

\* the same, where successive calls are compared (PairSpec)
MaxPairHandlers == 3

(***************************************************************************)
(* u32 values, held as <<high 16 bits, low 16 bits>>                       *)
(***************************************************************************)
Half == 65536

u32(n) == <<n \div Half, n % Half>>

U32Max == <<Half - 1, Half - 1>>

\* v + 2: the wrapped sum and whether it overflowed
add2(v) ==
    LET lo == v[2] + 2
        hi == v[1] + (lo \div Half)
    IN  [value |-> <<hi % Half, lo % Half>>, overflow |-> hi >= Half]

\* v * 4
mul4(v) ==
    LET lo == v[2] * 4
        hi == v[1] * 4 + (lo \div Half)
    IN  [value |-> <<hi % Half, lo % Half>>, overflow |-> hi >= Half]

\* v - 2
sub2(v) ==
    LET lo == v[2] - 2
        hi == IF lo < 0 THEN v[1] - 1 ELSE v[1]
    IN  [value |-> <<hi % Half, lo % Half>>, overflow |-> hi < 0]

\* v / 2
div2(v) ==
    [value |-> <<v[1] \div 2, (v[2] \div 2) + (v[1] % 2) * (Half \div 2)>>,
     overflow |-> FALSE]

(***************************************************************************)
(* Types and type identities                                               *)
(***************************************************************************)
\* the event structs of the tests; both are { some_data: u32 }
EventTypes == {"SomeEvent", "NonRegisteredEvent"}

NoType == "()"

\* the type Box<dyn Handler<E>>
BoxDynHandler(E) == "Box<dyn Handler<" \o E \o ">>"

\* the concrete type FnHandler<E, F>
FnHandlerType(E) == "FnHandler<" \o E \o ", F>"

\* memory layout of a type: the event structs share one, the boxes another
LayoutOf(T) == IF T \in EventTypes THEN "{u32}"
               ELSE IF T = NoType THEN "{}" ELSE "fat pointer"

LayoutId_of(T) == [t |-> LayoutOf(T)]

\* TypeId::of::<T>(): one token per type
TypeId_of(T) == [t |-> T]

(***************************************************************************)
(* Closures, the Handler trait and the FnHandler adapter                   *)
(***************************************************************************)
Bodies == {"add2", "mul4", "sub2", "div2"}

\* closures |e: &mut E| { e.some_data <op>= k; }
Closures == [E : EventTypes, body : Bodies]

\* the events a caller passes to call_event
Events == {[some_data |-> u32(0)], [some_data |-> U32Max]}

NoEvent == [some_data |-> u32(0)]

\* calling closure f on event e: the event it leaves and whether it panicked
Call(f, e, checks) ==
    LET r == CASE f.body = "add2" -> add2(e.some_data)
               [] f.body = "mul4" -> mul4(e.some_data)
               [] f.body = "sub2" -> sub2(e.some_data)
               [] f.body = "div2" -> div2(e.some_data)
    IN  IF r.overflow /\ checks
        THEN [panic |-> TRUE, event |-> e]
        ELSE [panic |-> FALSE, event |-> [e EXCEPT !.some_data = r.value]]

\* FnHandler::from(dyn_fn)
FnHandler_from(dyn_fn) == [dyn_fn |-> dyn_fn]

Handlers == {FnHandler_from(f) : f \in Closures}

\* the E of a handler's impl Handler<E>
HandlerEvent(h) == h.dyn_fn.E

\* <FnHandler as Handler<E>>::handle; the faulty variant calls dyn_fn a second time
handle_twice(h, e, checks) ==
    LET r == Call(h.dyn_fn, e, checks)
    IN  IF r.panic THEN r ELSE Call(h.dyn_fn, r.event, checks)

handle(h, e, checks) == Call(h.dyn_fn, e, checks)

(***************************************************************************)
(* Box<dyn Any>                                                            *)
(***************************************************************************)
\* Box::new(value) as Box<dyn Any>, for a value of type T
BoxAny(T, value) == [type_id |-> TypeId_of(T), value |-> value]

None == [some |-> FALSE]
Some(x) == [some |-> TRUE, value |-> x]

\* <dyn Any>::downcast_ref::<T>()
downcast_ref(b, T) == IF b.type_id = TypeId_of(T) THEN Some(b.value) ELSE None

\* HashMap::get
get(m, k) == IF k \in DOMAIN m THEN Some(m[k]) ELSE None

\* HashMap::entry(k).or_insert_with(Vec::default); the faulty variant starts a
\* fresh map for a new key
or_insert_fresh(m, k) == IF k \in DOMAIN m THEN m ELSE (k :> <<>>)

or_insert_with(m, k) == IF k \in DOMAIN m THEN m ELSE m @@ (k :> <<>>)

\* Vec::push, with its faulty variants: at the front, and skipping an equal element
push_front(v, x) == <<x>> \o v

push_dedup(v, x) == IF \E j \in 1..Len(v) : v[j] = x THEN v ELSE Append(v, x)

push(v, x) == Append(v, x)

\* the i-th item of `for handler in vec` (line 39), and of a reversed traversal
iter_rev(v, j) == v[Len(v) - j + 1]

iter(v, j) == v[j]

\* the handlers of a type with no key are the empty sequence
CellsOf(m, k) == IF k \in DOMAIN m THEN m[k] ELSE <<>>

(***************************************************************************)
(* EventBus                                                                *)
(***************************************************************************)
\* the box register_handler stores: the handler as Box<dyn Handler<E>> (line 29),
\* then as Box<dyn Any> (line 32); without line 29 the Any is the concrete handler
ConcreteBox(E, handler) == BoxAny(FnHandlerType(E), handler)

ErasedBox(E, handler) == BoxAny(BoxDynHandler(E), handler)

\* the handlers of an invocation log, in order
HandlersOf(log) == [k \in 1..Len(log) |-> log[k].handler]

\* no earlier call to compare with
NoCall == [E |-> NoType, initial |-> NoEvent, handlers |-> <<>>]

\* EventBus::new: HashMap::new(); the faulty variant starts with a handler in it
new_prefilled ==
    TypeId_of("SomeEvent") :>
        <<ErasedBox("SomeEvent", FnHandler_from([E |-> "SomeEvent", body |-> "add2"]))>>

new == <<>>

\* <EventBus as Default>::default
default == new

Init ==
    /\ handler_cells \in {new, default}
    /\ overflow_checks \in BOOLEAN
    /\ pc = "idle"
    /\ event_type = NoType
    /\ type_id = TypeId_of(NoType)
    /\ event = NoEvent
    /\ i = 0
    /\ initial = NoEvent
    /\ invoked = <<>>
    /\ registered = [E \in EventTypes |-> <<>>]
    /\ previous = NoCall

\* the caller holds the bus and no call is running
CallerHasBus == pc \in {"idle", "returned"}

TotalRegistered == Len(registered["SomeEvent"]) + Len(registered["NonRegisteredEvent"])

\* the map after register_handler::<E, F>(handler); the faulty variant overwrites
\* the entry (HashMap::insert) instead of pushing to it
register_handler_insert(cells, E, handler) ==
    LET k == TypeId_of(E)
        m == or_insert_with(cells, k)
    IN  [m EXCEPT ![k] = <<ErasedBox(E, handler)>>]

register_handler(cells, E, handler) ==
    LET k == TypeId_of(E)
        m == or_insert_with(cells, k)
    IN  [m EXCEPT ![k] = push(@, ErasedBox(E, handler))]

\* the frame of a finished call is gone once the caller goes on
DropCall ==
    /\ pc' = "idle"
    /\ event_type' = NoType
    /\ type_id' = TypeId_of(NoType)
    /\ event' = NoEvent
    /\ i' = 0
    /\ initial' = NoEvent
    /\ invoked' = <<>>
    /\ previous' = NoCall

RegisterHandler ==
    /\ CallerHasBus
    /\ TotalRegistered < MaxHandlers
    /\ \E h \in Handlers :
        /\ handler_cells' = register_handler(handler_cells, HandlerEvent(h), h)
        /\ registered' = [registered EXCEPT ![HandlerEvent(h)] = Append(@, h)]
    /\ DropCall
    /\ UNCHANGED overflow_checks

RegisterFn ==
    /\ CallerHasBus
    /\ TotalRegistered < MaxHandlers
    /\ \E f \in Closures :
        LET h == FnHandler_from(f)
        IN  /\ handler_cells' = register_handler(handler_cells, f.E, h)
            /\ registered' = [registered EXCEPT ![f.E] = Append(@, h)]
    /\ DropCall
    /\ UNCHANGED overflow_checks

\* faulty variant of line 37: the identity is taken from the value of the event
EnterCallByValue ==
    /\ CallerHasBus
    /\ \E E \in EventTypes, e \in Events :
        /\ event_type' = E
        /\ type_id' = IF e.some_data = u32(0) THEN TypeId_of(E) ELSE TypeId_of(NoType)
        /\ event' = e
        /\ initial' = e
    /\ pc' = "get"
    /\ i' = 0
    /\ invoked' = <<>>
    /\ UNCHANGED <<handler_cells, overflow_checks, registered>>

\* call_event::<E>(&mut e) is entered: line 37
EnterCall ==
    /\ CallerHasBus
    /\ \E E \in EventTypes, e \in Events :
        /\ event_type' = E
        /\ type_id' = TypeId_of(E)
        /\ event' = e
        /\ initial' = e
    /\ pc' = "get"
    /\ i' = 0
    /\ invoked' = <<>>
    /\ UNCHANGED <<handler_cells, overflow_checks, registered>>

CallEventEnter ==
    /\ EnterCall
    /\ UNCHANGED previous

\* call_event is entered again after a call that returned, which is remembered
CallEventAgain ==
    /\ pc = "returned"
    /\ EnterCall
    /\ previous' = [E |-> event_type, initial |-> initial,
                    handlers |-> HandlersOf(invoked)]

\* faulty variant of line 38: self.handler_cells[&type_id], which panics on a missing key
CallEventGetIndex ==
    /\ pc = "get"
    /\ IF get(handler_cells, type_id).some
       THEN pc' = "loop" /\ i' = 1
       ELSE pc' = "index_panic" /\ i' = 0
    /\ UNCHANGED <<handler_cells, overflow_checks, event_type, type_id, event,
                   initial, invoked, registered, previous>>

\* faulty variant of line 38: self.handler_cells.entry(type_id).or_insert_with(..)
CallEventGetEntry ==
    /\ pc = "get"
    /\ handler_cells' = or_insert_with(handler_cells, type_id)
    /\ pc' = "loop"
    /\ i' = 1
    /\ UNCHANGED <<overflow_checks, event_type, type_id, event, initial, invoked,
                   registered, previous>>

\* line 38: if let Some(vec) = self.handler_cells.get(&type_id)
CallEventGet ==
    /\ pc = "get"
    /\ IF get(handler_cells, type_id).some
       THEN pc' = "loop" /\ i' = 1
       ELSE pc' = "returned" /\ i' = 0
    /\ UNCHANGED <<handler_cells, overflow_checks, event_type, type_id, event,
                   initial, invoked, registered, previous>>

\* line 41: a panic of handle is not caught, it unwinds through call_event;
\* the faulty variant catches it
caught(r) == FALSE

propagates(r) == r.panic

\* lines 39-42: one turn of the for loop
CallEventIter ==
    /\ pc = "loop"
    /\ i <= Len(handler_cells[type_id])
    /\ LET b == iter(handler_cells[type_id], i)
           d == downcast_ref(b, BoxDynHandler(event_type))
       IN  IF ~d.some
           THEN \* unwrap() on None
                /\ pc' = "unwrap_panic"
                /\ UNCHANGED <<event, i, invoked>>
           ELSE LET r == handle(d.value, event, overflow_checks)
                IN  /\ invoked' = Append(invoked, [handler |-> d.value, saw |-> event])
                    /\ event' = r.event
                    /\ IF propagates(r)
                       THEN pc' = "handler_panic" /\ i' = i
                       ELSE pc' = "loop" /\ i' = i + 1
    /\ UNCHANGED <<handler_cells, overflow_checks, event_type, type_id, initial,
                   registered, previous>>

\* faulty variant: the loop stops one item early
CallEventReturnEarly ==
    /\ pc = "loop"
    /\ i >= Len(handler_cells[type_id])
    /\ pc' = "returned"
    /\ UNCHANGED <<handler_cells, overflow_checks, event_type, type_id, event, i,
                   initial, invoked, registered, previous>>

\* faulty variant: the handlers that ran are dropped from the map (one-shot handlers)
CallEventReturnDrain ==
    /\ pc = "loop"
    /\ i > Len(handler_cells[type_id])
    /\ pc' = "returned"
    /\ handler_cells' = [handler_cells EXCEPT ![type_id] = <<>>]
    /\ UNCHANGED <<overflow_checks, event_type, type_id, event, i,
                   initial, invoked, registered, previous>>

\* the loop is over: call_event returns
CallEventReturn ==
    /\ pc = "loop"
    /\ i > Len(handler_cells[type_id])
    /\ pc' = "returned"
    /\ UNCHANGED <<handler_cells, overflow_checks, event_type, type_id, event, i,
                   initial, invoked, registered, previous>>

Next ==
    \/ RegisterFn
    \/ RegisterHandler
    \/ CallEventEnter
    \/ CallEventGet
    \/ CallEventIter
    \/ CallEventReturn

Spec == Init /\ [][Next]_vars

\* the same program, remembering an earlier returned call at each further call
PairNext ==
    \/ TotalRegistered < MaxPairHandlers /\ RegisterFn
    \/ TotalRegistered < MaxPairHandlers /\ RegisterHandler
    \/ pc = "idle" /\ CallEventEnter
    \/ CallEventAgain
    \/ CallEventGet
    \/ CallEventIter
    \/ CallEventReturn

PairSpec == Init /\ [][PairNext]_vars

\* call_event is a synchronous call: once entered, its steps are taken until it
\* returns or unwinds; the caller is free to stop calling
FairSpec ==
    /\ Spec
    /\ WF_vars(CallEventGet)
    /\ WF_vars(CallEventIter)
    /\ WF_vars(CallEventReturn)

TypeOK ==
    /\ pc \in {"idle", "get", "loop", "returned", "unwrap_panic", "handler_panic"}
    /\ DOMAIN handler_cells \subseteq {TypeId_of(E) : E \in EventTypes}
    /\ overflow_checks \in BOOLEAN
    /\ event_type \in EventTypes \cup {NoType}
    /\ i \in 0..(MaxHandlers + 1)

(***************************************************************************)
(* Helpers of the properties                                               *)
(***************************************************************************)
\* a call_event has been entered and its frame is still there
InCall == pc # "idle"

\* the bodies of a sequence of handlers
BodiesOf(hs) == [k \in 1..Len(hs) |-> hs[k].dyn_fn.body]

\* the event after hs[1], hs[2], ... have handled e one after the other
RECURSIVE Compose(_, _, _)
Compose(hs, e, checks) ==
    IF hs = <<>> THEN e
    ELSE Compose(Tail(hs), handle(Head(hs), e, checks).event, checks)

\* how often x occurs in sequence s
Count(x, s) == Cardinality({k \in 1..Len(s) : s[k] = x})

IsPrefix(s, t) == Len(s) <= Len(t) /\ SubSeq(t, 1, Len(s)) = s

OtherType(E) == CHOOSE F \in EventTypes : F # E

(***************************************************************************)
(* C1: the handlers of a type run in registration order on the same event, *)
(* each seeing the value the previous one left, so that a call that        *)
(* returns leaves Hn(...H2(H1(v))...); +2, *4, -2, /2 on 0 leaves 3.       *)
(***************************************************************************)
C1_RegistrationOrder ==
    /\ pc \in {"loop", "returned", "handler_panic"} =>
        /\ IsPrefix(HandlersOf(invoked), registered[event_type])
        /\ \A k \in 1..Len(invoked) :
            invoked[k].saw =
                IF k = 1 THEN initial
                ELSE handle(invoked[k-1].handler, invoked[k-1].saw, overflow_checks).event
    /\ pc = "returned" =>
        /\ HandlersOf(invoked) = registered[event_type]
        /\ event = Compose(registered[event_type], initial, overflow_checks)
        /\ (/\ BodiesOf(registered[event_type]) = <<"add2", "mul4", "sub2", "div2">>
            /\ initial.some_data = u32(0))
           => event.some_data = u32(3)

C1_Witness ==
    /\ pc = "returned"
    /\ event_type = "SomeEvent"
    /\ BodiesOf(registered["SomeEvent"]) = <<"add2", "mul4", "sub2", "div2">>
    /\ initial.some_data = u32(0)
    /\ Len(invoked) = 4
    /\ event.some_data = u32(3)

(***************************************************************************)
(* C2: type isolation: a call_event on an event of type B invokes only     *)
(* handlers registered for B, never one registered for another type A,     *)
(* although A and B have the same field layout.                            *)
(***************************************************************************)
C2_TypeIsolation ==
    \A k \in 1..Len(invoked) :
        /\ HandlerEvent(invoked[k].handler) = event_type
        /\ Count(invoked[k].handler, registered[event_type]) > 0

C2_Witness ==
    /\ pc = "returned"
    /\ LayoutOf(event_type) = LayoutOf(OtherType(event_type))
    /\ registered[OtherType(event_type)] # <<>>
    /\ Len(invoked) = 1
    /\ Len(registered[event_type]) = 1

(***************************************************************************)
(* C3: no-handler no-op: a call_event on an event whose type has no        *)
(* registered handler invokes nothing, leaves the event as it was and      *)
(* returns without a panic, whether or not other types have handlers.      *)
(***************************************************************************)
C3_NoHandlerNoOp ==
    (InCall /\ registered[event_type] = <<>>) =>
        /\ pc \in {"get", "returned"}
        /\ invoked = <<>>
        /\ event = initial

C3_Witness ==
    /\ pc = "returned"
    /\ registered[event_type] = <<>>
    /\ registered[OtherType(event_type)] # <<>>
    /\ event = initial

(***************************************************************************)
(* C4: multiplicity: registration does not deduplicate; a handler          *)
(* registered k times for E is invoked k times by each call_event on E     *)
(* that returns, its effects compounding, and the number of invocations    *)
(* equals the number of register calls made for E.                         *)
(***************************************************************************)
C4_Multiplicity ==
    /\ \A E \in EventTypes :
        Len(CellsOf(handler_cells, TypeId_of(E))) = Len(registered[E])
    /\ pc = "returned" =>
        /\ Len(invoked) = Len(registered[event_type])
        /\ \A h \in Handlers :
            Count(h, HandlersOf(invoked)) = Count(h, registered[event_type])
        /\ (/\ BodiesOf(registered[event_type]) = <<"add2", "add2">>
            /\ initial.some_data = u32(0))
           => event.some_data = u32(4)

C4_Witness ==
    /\ pc = "returned"
    /\ BodiesOf(registered[event_type]) = <<"add2", "add2">>
    /\ initial.some_data = u32(0)
    /\ Len(invoked) = 2
    /\ invoked[1].handler = invoked[2].handler
    /\ event.some_data = u32(4)

(***************************************************************************)
(* C5: type-erasure invariant: every box in the sequence keyed by id(E)    *)
(* downcasts to Box<dyn Handler<E>> for exactly that E and for no other    *)
(* type, so the unwrap of line 40 never panics.                            *)
(***************************************************************************)
C5_TypeErasure ==
    /\ \A key \in DOMAIN handler_cells :
        \E E \in EventTypes :
            /\ key = TypeId_of(E)
            /\ \A j \in 1..Len(handler_cells[key]) :
                /\ downcast_ref(handler_cells[key][j], BoxDynHandler(E)).some
                /\ HandlerEvent(handler_cells[key][j].value) = E
                /\ \A F \in EventTypes \ {E} :
                    ~downcast_ref(handler_cells[key][j], BoxDynHandler(F)).some
    /\ pc # "unwrap_panic"

C5_Witness ==
    /\ pc = "loop"
    /\ Len(invoked) >= 2
    /\ Cardinality(DOMAIN handler_cells) = 2
    /\ i <= Len(handler_cells[type_id])
    /\ downcast_ref(handler_cells[type_id][i], BoxDynHandler(event_type)).some

(***************************************************************************)
(* C6: call_event never mutates the registry: every step of a dispatch,    *)
(* from its entry to its return, with or without handlers, leaves the map  *)
(* of type identities to handler sequences as it was.                      *)
(***************************************************************************)
C6_CallEventKeepsRegistry ==
    [][(pc \in {"get", "loop"} \/ pc' = "get") => handler_cells' = handler_cells]_vars

C6_Witness ==
    /\ pc = "returned"
    /\ Cardinality(DOMAIN handler_cells) = 1
    /\ type_id \notin DOMAIN handler_cells

(***************************************************************************)
(* C7: the registry only grows: no step removes a key or a box or reorders *)
(* boxes; each type's sequence before a step is a prefix of its sequence   *)
(* after it, and a non-empty sequence never becomes empty.                 *)
(***************************************************************************)
C7_RegistryOnlyGrows ==
    [][\A key \in DOMAIN handler_cells :
        /\ key \in DOMAIN handler_cells'
        /\ IsPrefix(handler_cells[key], handler_cells'[key])
        /\ handler_cells[key] # <<>> => handler_cells'[key] # <<>>]_vars

C7_Witness ==
    /\ pc = "idle"
    /\ \A E \in EventTypes :
        /\ TypeId_of(E) \in DOMAIN handler_cells
        /\ Len(handler_cells[TypeId_of(E)]) = 2

(***************************************************************************)
(* C8: a handler Hk that panics aborts the dispatch: no handler after Hk   *)
(* is invoked in that call and the call never returns to its caller.       *)
(***************************************************************************)
C8_AbortedAtPanic ==
    /\ \A k \in 1..Len(invoked) :
        handle(invoked[k].handler, invoked[k].saw, overflow_checks).panic =>
            /\ k = Len(invoked)
            /\ i = k
            /\ pc = "handler_panic"
    /\ pc = "handler_panic" =>
        /\ invoked # <<>>
        /\ event = invoked[Len(invoked)].saw

\* C8: no step leaves a call whose handler panicked, and after every step a
\* panicking handler is the last one invoked
C8_PanicAborts == [][pc # "handler_panic" /\ C8_AbortedAtPanic']_vars

C8_Witness ==
    /\ pc = "handler_panic"
    /\ Len(invoked) = i
    /\ i >= 2
    /\ i < Len(handler_cells[type_id])

(***************************************************************************)
(* C9: the registry made by new() or Default::default() is empty: as long  *)
(* as nothing has been registered the map has no key, and a call_event of  *)
(* any type invokes nothing and leaves the event unchanged.                *)
(***************************************************************************)
C9_NewIsEmpty ==
    TotalRegistered = 0 =>
        /\ DOMAIN handler_cells = {}
        /\ pc \in {"idle", "get", "returned"}
        /\ invoked = <<>>
        /\ event = initial

C9_Witness ==
    /\ pc = "returned"
    /\ TotalRegistered = 0
    /\ DOMAIN handler_cells = {}
    /\ initial.some_data = U32Max
    /\ event = initial

(***************************************************************************)
(* C10: register_handler for E appends exactly one box at the end of the   *)
(* sequence keyed by id(E), creating the sequence when E had none: the     *)
(* length grows by 1, the boxes already there keep their positions, the    *)
(* new box holds the handler passed in, and the call does not fail.        *)
(***************************************************************************)
C10_RegisterAppendsOne ==
    [][\A E \in EventTypes :
        registered'[E] # registered[E] =>
            LET key == TypeId_of(E)
                old == CellsOf(handler_cells, key)
            IN  /\ key \in DOMAIN handler_cells'
                /\ Len(handler_cells'[key]) = Len(old) + 1
                /\ SubSeq(handler_cells'[key], 1, Len(old)) = old
                /\ handler_cells'[key][Len(old) + 1].value
                       = registered'[E][Len(registered'[E])]
                /\ pc' = "idle"]_vars

C10_Witness ==
    /\ pc = "idle"
    /\ \E E \in EventTypes :
        /\ TypeId_of(E) \in DOMAIN handler_cells
        /\ Len(handler_cells[TypeId_of(E)]) = 3
        /\ TypeId_of(OtherType(E)) \notin DOMAIN handler_cells

(***************************************************************************)
(* C11: provided every handler returns, each call_event terminates, and    *)
(* when it returns each of the n boxes of the event's type has been        *)
(* invoked exactly once: none skipped, none twice, none left pending.      *)
(***************************************************************************)
\* some handler of hs panics when hs[1], hs[2], ... handle e in turn
RECURSIVE SomePanics(_, _, _)
SomePanics(hs, e, checks) ==
    IF hs = <<>> THEN FALSE
    ELSE LET r == handle(Head(hs), e, checks)
         IN  r.panic \/ SomePanics(Tail(hs), r.event, checks)

\* the k-th invocation of the call was of the k-th box, and there are n of them
C11_EachOnce ==
    pc = "returned" =>
        LET vec == CellsOf(handler_cells, type_id)
        IN  /\ Len(invoked) = Len(vec)
            /\ \A k \in 1..Len(vec) : invoked[k].handler = vec[k].value
            /\ i = IF vec = <<>> THEN 0 ELSE Len(vec) + 1

\* C11: a call whose handlers all return does return, each box invoked once
C11_TerminatesEachOnce ==
    /\ []C11_EachOnce
    /\ (pc = "get" /\ ~SomePanics(registered[event_type], initial, overflow_checks))
           ~> (pc = "returned")
    /\ (pc = "get") ~> (pc \in {"returned", "handler_panic"})

C11_Witness ==
    /\ pc = "returned"
    /\ overflow_checks
    /\ Len(invoked) = 3
    /\ i = 4
    /\ ~SomePanics(registered[event_type], initial, overflow_checks)

(***************************************************************************)
(* C12: register_fn(f) is register_handler of an adapter that delegates to *)
(* f: both calls leave the same registry (one box, holding nothing but f,  *)
(* under the identity of f's event type), and at dispatch the adapter      *)
(* calls f exactly once on the event passed in, adding no effect of its    *)
(* own.                                                                    *)
(***************************************************************************)
\* every box holds an adapter of one closure and nothing else, under that closure's type
C12_BoxesAreAdapters ==
    \A E \in EventTypes :
        LET vec == CellsOf(handler_cells, TypeId_of(E))
        IN  \A j \in 1..Len(vec) :
                /\ DOMAIN vec[j].value = {"dyn_fn"}
                /\ vec[j].value.dyn_fn \in Closures
                /\ vec[j].value.dyn_fn.E = E
                /\ vec[j].value = registered[E][j]

\* each invocation left the event exactly as one call of the wrapped closure leaves it
C12_DelegatesOnce ==
    pc \in {"loop", "returned"} =>
        \A k \in 1..Len(invoked) :
            LET after == IF k < Len(invoked) THEN invoked[k+1].saw ELSE event
                r == Call(invoked[k].handler.dyn_fn, invoked[k].saw, overflow_checks)
            IN  ~r.panic /\ after = r.event

\* C12: a register_fn step is a register_handler step and conversely, the boxes are
\* adapters of the closures passed in, and an adapter delegates once to its closure
C12_RegisterFnIsAdapter ==
    [][/\ RegisterFn <=> RegisterHandler
       /\ C12_BoxesAreAdapters'
       /\ C12_DelegatesOnce']_vars

C12_Witness ==
    /\ pc = "loop"
    /\ Len(invoked) = 1
    /\ Len(handler_cells[type_id]) = 2
    /\ event # initial
    /\ event = Call(registered[event_type][1].dyn_fn, initial, overflow_checks).event

(***************************************************************************)
(* C13: the handlers call_event selects depend on the type of the event    *)
(* and on the registry only, never on the event's field values: on the     *)
(* same registry, two events of one type with different values have the    *)
(* same handlers invoked in the same order.                                *)
(***************************************************************************)
C13_SelectionIgnoresValue ==
    (pc # "idle" /\ previous.E = event_type) =>
        /\ pc # "unwrap_panic"
        /\ IsPrefix(HandlersOf(invoked), previous.handlers)
        /\ pc = "returned" => HandlersOf(invoked) = previous.handlers

C13_Witness ==
    /\ pc = "returned"
    /\ previous.E = event_type
    /\ previous.initial # initial
    /\ Len(invoked) >= 2
    /\ HandlersOf(invoked) = previous.handlers

(***************************************************************************)
(* C14: with registrations and dispatches interleaved, each call_event     *)
(* invokes exactly the handlers registered for its type before it began,   *)
(* in registration order; a registration takes effect on later dispatches  *)
(* only, and two dispatches with no registration between them invoke the   *)
(* same handler sequence.                                                  *)
(***************************************************************************)
C14_SeesEarlierRegistrations ==
    /\ pc \in {"loop", "handler_panic", "returned"} =>
        IsPrefix(HandlersOf(invoked), registered[event_type])
    /\ pc = "returned" => HandlersOf(invoked) = registered[event_type]
    /\ previous # NoCall => previous.handlers = registered[previous.E]
    /\ (pc = "returned" /\ previous # NoCall /\ previous.E = event_type) =>
        HandlersOf(invoked) = previous.handlers

\* C14: no registration happens inside a call, a registration ends the comparison
\* with earlier calls, and after every step a call has seen its type's registrations
C14_InterleavedDispatch ==
    [][/\ registered' # registered =>
            (pc \in {"idle", "returned"} /\ pc' = "idle" /\ previous' = NoCall)
       /\ C14_SeesEarlierRegistrations']_vars

C14_Witness ==
    /\ pc = "returned"
    /\ previous # NoCall
    /\ previous.E = event_type
    /\ previous.initial = initial
    /\ Len(invoked) = 2
    /\ HandlersOf(invoked) = registered[event_type]

(***************************************************************************)
(* C15: registering a handler for type E leaves the handler sequence of    *)
(* every other type identity unchanged: same boxes, same order, and no key *)
(* created or removed for a type other than E.                             *)
(***************************************************************************)
C15_RegisterFrame ==
    [][\A E \in EventTypes :
        registered'[E] # registered[E] =>
            /\ DOMAIN handler_cells' = DOMAIN handler_cells \cup {TypeId_of(E)}
            /\ \A key \in DOMAIN handler_cells' \ {TypeId_of(E)} :
                handler_cells'[key] = handler_cells[key]
            /\ \A F \in EventTypes \ {E} : registered'[F] = registered[F]]_vars

C15_Witness ==
    /\ pc = "idle"
    /\ Cardinality(DOMAIN handler_cells) = 2
    /\ \E E \in EventTypes :
        /\ Len(handler_cells[TypeId_of(E)]) = 1
        /\ Len(handler_cells[TypeId_of(OtherType(E))]) = 3

(***************************************************************************)
(* C16: the map never holds an empty handler sequence: a type identity is  *)
(* a key of handler_cells exactly when at least one handler has been       *)
(* registered for that type, so 'key absent' and 'zero handlers' coincide. *)
(***************************************************************************)
C16_NoEmptySequence ==
    /\ \A key \in DOMAIN handler_cells : handler_cells[key] # <<>>
    /\ \A E \in EventTypes :
        TypeId_of(E) \in DOMAIN handler_cells <=> registered[E] # <<>>
    /\ pc = "loop" => Len(handler_cells[type_id]) >= 1

C16_Witness ==
    /\ pc = "returned"
    /\ type_id \notin DOMAIN handler_cells
    /\ registered[event_type] = <<>>
    /\ \E key \in DOMAIN handler_cells : Len(handler_cells[key]) >= 2
====
